---------------------------- MODULE Spec2Model ----------------------------
(***************************************************************************)
(* Parallel backfill of NDJSON tweet files into the TimescaleDB table      *)
(* "tweets" (scripts/ingest/backfill_parallel.py).                         *)
(*                                                                         *)
(* The coordinator (main) ensures the schema, discovers and partitions the *)
(* input files and maps process_files over the chunks with a process pool. *)
(* Every pool process owns a connection, a batch buffer and its counters;  *)
(* the only shared object is the store.                                    *)
(*                                                                         *)
(* Scaling.  Instants are milliseconds since the epoch, kept small.  The   *)
(* page size of psycopg2's execute_values (100 by default) is scaled to    *)
(* PageSize so that a batch longer than one page occurs within the bounds. *)
(***************************************************************************)
EXTENDS Integers, Sequences, FiniteSets, Bags, TLC

(***************************************************************************)
(* Bounds of the model.                                                    *)
(***************************************************************************)
MaxWorkers == 2      \* largest configured N_WORKERS
MaxBatch == 3        \* largest configured BATCH_SIZE
MaxRuns == 2         \* runs of main over the same file set
MaxPartFiles == 4    \* largest file count of the partitioning scenarios
MaxLines == 2        \* longest file of the line-handling scenarios
MaxFaults == 1       \* faults of the store met in one run
MaxKeyLines == 2     \* longest first file of the batching scenarios

(***************************************************************************)
(* JSON values.  A value is a record tagged by t; an object is a dict      *)
(* whose d maps the keys that are present to their values.                 *)
(***************************************************************************)
Null == [t |-> "null"]
JInt(n) == [t |-> "int", i |-> n]
JStr(s) == [t |-> "str", s |-> s]
JBool(b) == [t |-> "bool", b |-> b]
JList(n) == [t |-> "list", n |-> n]
JDict(d) == [t |-> "dict", d |-> d]

\* dict.get(key): None when the key is missing
Get(obj, key) == IF key \in DOMAIN obj.d THEN obj.d[key] ELSE Null

\* dict.get(key, default)
GetDefault(obj, key, default) == IF key \in DOMAIN obj.d THEN obj.d[key] ELSE default

\* Python truth value of a JSON value
Truthy(v) ==
    CASE v.t = "null" -> FALSE
      [] v.t = "int" -> v.i # 0
      [] v.t = "str" -> v.s # ""
      [] v.t = "bool" -> v.b
      [] v.t = "list" -> v.n # 0
      [] v.t = "dict" -> DOMAIN v.d # {}

\* a or b
Or(a, b) == IF Truthy(a) THEN a ELSE b

\* isinstance(v, dict)
IsDict(v) == v.t = "dict"

(***************************************************************************)
(* Conversions of the standard library, on the values the model uses.      *)
(***************************************************************************)
\* the decimal numerals int() accepts among the strings of the model
Numerals == 0 .. 3000

\* int(v): the integer, or the exception it raises
IntOf(v) ==
    CASE v.t = "int" -> [ok |-> TRUE, i |-> v.i]
      [] v.t = "bool" -> [ok |-> TRUE, i |-> IF v.b THEN 1 ELSE 0]
      [] v.t = "str" ->
            IF \E k \in Numerals : ToString(k) = v.s
            THEN [ok |-> TRUE, i |-> CHOOSE k \in Numerals : ToString(k) = v.s]
            ELSE [ok |-> FALSE, exc |-> "ValueError"]
      [] OTHER -> [ok |-> FALSE, exc |-> "TypeError"]

\* str(v)
StrOf(v) ==
    CASE v.t = "str" -> v.s
      [] v.t = "int" -> ToString(v.i)
      [] v.t = "null" -> "None"
      [] v.t = "bool" -> IF v.b THEN "True" ELSE "False"
      [] v.t = "list" -> IF v.n = 0 THEN "[]" ELSE "[...]"
      [] v.t = "dict" -> IF DOMAIN v.d = {} THEN "{}" ELSE "{...}"

\* the strings of the model that match "%a %b %d %H:%M:%S %z %Y", with the
\* instant (ms since the epoch, UTC) each denotes
DateStrings ==
    { <<"Thu Jan 01 00:00:01 +0000 1970", 1000>>,
      <<"Thu Jan 01 01:00:01 +0100 1970", 1000>>,
      <<"Thu Jan 01 00:00:02 +0000 1970", 2000>> }

\* datetime.strptime(v, "%a %b %d %H:%M:%S %z %Y")
Strptime(v) ==
    IF v.t # "str" THEN [ok |-> FALSE, exc |-> "TypeError"]
    ELSE IF \E e \in DateStrings : e[1] = v.s
         THEN [ok |-> TRUE, i |-> (CHOOSE e \in DateStrings : e[1] = v.s)[2]]
         ELSE [ok |-> FALSE, exc |-> "ValueError"]

(***************************************************************************)
(* parse_ts: the instant of a record, None, or the exception raised.       *)
(***************************************************************************)
\* (mutation of parse_ts: created_at is tried first)
parse_ts_created_first(obj) ==
    LET ms == Get(obj, "timestamp_ms")
        created == Get(obj, "created_at")
    IN  IF Truthy(created)
        THEN LET d == Strptime(created)
             IN  IF d.ok THEN [r |-> "ts", ts |-> d.i]
                 ELSE [r |-> "raise", exc |-> d.exc]
        ELSE IF ms # Null
             THEN LET n == IntOf(ms)
                  IN  IF n.ok THEN [r |-> "ts", ts |-> n.i]
                      ELSE [r |-> "raise", exc |-> n.exc]
             ELSE [r |-> "none"]

parse_ts(obj) ==
    LET ms == Get(obj, "timestamp_ms")
        created == Get(obj, "created_at")
    IN  IF ms # Null
        THEN LET n == IntOf(ms)
             IN  IF n.ok THEN [r |-> "ts", ts |-> n.i]
                 ELSE [r |-> "raise", exc |-> n.exc]
        ELSE IF Truthy(created)
             THEN LET d == Strptime(created)
                  IN  IF d.ok THEN [r |-> "ts", ts |-> d.i]
                      ELSE [r |-> "raise", exc |-> d.exc]
             ELSE [r |-> "none"]

(***************************************************************************)
(* extract_row: the ten projected columns, or the exception raised.        *)
(***************************************************************************)
SourceMax == 100

\* s[:n] of a str
Prefix(s, n) == IF Len(s) <= n THEN s ELSE SubSeq(s, 1, n)

\* (mutation of extract_row: coordinates and entities are stored whenever
\* they are truthy)
extract_row_any(obj) ==
    LET user == Or(Get(obj, "user"), JDict(<<>>))
        place == Get(obj, "place")
        coords == Get(obj, "coordinates")
        entities_data == Get(obj, "entities")
        source == Or(Get(obj, "source"), JStr(""))
    IN  IF ~IsDict(user) THEN [r |-> "raise", exc |-> "AttributeError"]
        ELSE IF source.t \notin {"str", "list"} THEN [r |-> "raise", exc |-> "TypeError"]
        ELSE [r |-> "row",
              row |-> [lang |-> Or(Get(obj, "lang"), JStr("und")),
                       source |-> IF source.t = "str"
                                  THEN JStr(Prefix(source.s, SourceMax))
                                  ELSE JList(IF source.n <= SourceMax THEN source.n ELSE SourceMax),
                       screen_name |-> Get(user, "screen_name"),
                       place |-> IF Truthy(place) /\ IsDict(place)
                                 THEN Get(place, "name") ELSE Null,
                       quote_count |-> Get(obj, "quote_count"),
                       favorited |-> Get(obj, "favorited"),
                       coordinates |-> IF Truthy(coords) THEN coords ELSE Null,
                       entities |-> IF Truthy(entities_data) THEN entities_data ELSE Null,
                       friends_count |-> Get(user, "friends_count"),
                       user_id |-> Get(user, "id")]]

extract_row(obj) ==
    LET user == Or(Get(obj, "user"), JDict(<<>>))
        place == Get(obj, "place")
        coords == Get(obj, "coordinates")
        entities_data == Get(obj, "entities")
        source == Or(Get(obj, "source"), JStr(""))
    IN  IF ~IsDict(user) THEN [r |-> "raise", exc |-> "AttributeError"]
        ELSE IF source.t \notin {"str", "list"} THEN [r |-> "raise", exc |-> "TypeError"]
        ELSE [r |-> "row",
              row |-> [lang |-> Or(Get(obj, "lang"), JStr("und")),
                       source |-> IF source.t = "str"
                                  THEN JStr(Prefix(source.s, SourceMax))
                                  ELSE JList(IF source.n <= SourceMax THEN source.n ELSE SourceMax),
                       screen_name |-> Get(user, "screen_name"),
                       place |-> IF Truthy(place) /\ IsDict(place)
                                 THEN Get(place, "name") ELSE Null,
                       quote_count |-> Get(obj, "quote_count"),
                       favorited |-> Get(obj, "favorited"),
                       coordinates |-> IF Truthy(coords) /\ IsDict(coords)
                                       THEN coords ELSE Null,
                       entities |-> IF Truthy(entities_data) /\ IsDict(entities_data)
                                    THEN entities_data ELSE Null,
                       friends_count |-> Get(user, "friends_count"),
                       user_id |-> Get(user, "id")]]


(***************************************************************************)
(* The lines the input files of the model are made of.  A line is blank,   *)
(* text that is not JSON, or a JSON value.                                 *)
(***************************************************************************)
Blank == [kind |-> "blank"]
Text == [kind |-> "text"]
JsonLine(v) == [kind |-> "json", v |-> v]

\* lines of every way through the line loop
FlowLines ==
    << \* 1: {"timestamp_ms": "1000", "id_str": "42", "lang": "en"}
       JsonLine(JDict([timestamp_ms |-> JStr("1000"), id_str |-> JStr("42"),
                   lang |-> JStr("en")])),
       \* 2: the key of line 1 written otherwise, with another lang
       JsonLine(JDict([created_at |-> JStr("Thu Jan 01 01:00:01 +0100 1970"),
                   id |-> JInt(42), lang |-> JStr("fr")])),
       \* 3: {"timestamp_ms": 2000, "id_str": "43", ...}
       JsonLine(JDict([timestamp_ms |-> JInt(2000), id_str |-> JStr("43"),
                   user |-> JDict([screen_name |-> JStr("bob"), id |-> JInt(9)]),
                   coordinates |-> JList(2)])),
       \* 4: {"timestamp_ms": 3000, "id_str": "44"}
       JsonLine(JDict([timestamp_ms |-> JInt(3000), id_str |-> JStr("44")])),
       \* 5: {"id": 7}
       JsonLine(JDict([id |-> JInt(7)])),
       \* 6: {"timestamp_ms": 1000}
       JsonLine(JDict([timestamp_ms |-> JInt(1000)])),
       \* 7: {"timestamp_ms": 1000, "id": null}
       JsonLine(JDict([timestamp_ms |-> JInt(1000), id |-> Null])),
       \* 8: {"timestamp_ms": "abc", "id_str": "42"}
       JsonLine(JDict([timestamp_ms |-> JStr("abc"), id_str |-> JStr("42")])),
       \* 9: {"created_at": "yesterday", "id_str": "42"}
       JsonLine(JDict([created_at |-> JStr("yesterday"), id_str |-> JStr("42")])),
       \* 10: a line that is not JSON
       Text,
       \* 11: [1, 2]
       JsonLine(JList(2)),
       \* 12: a line of white space
       Blank,
       \* 13: {"timestamp_ms": null, "created_at": "", "id_str": "42"}
       JsonLine(JDict([timestamp_ms |-> Null, created_at |-> JStr(""),
                   id_str |-> JStr("42")])) >>

\* records whose timestamp fields and optional fields have every shape
ShapeLines ==
    << \* 14: {"timestamp_ms": 2000, "created_at": "yesterday", "id_str": "45"}
       JsonLine(JDict([timestamp_ms |-> JInt(2000), created_at |-> JStr("yesterday"),
                       id_str |-> JStr("45")])),
       \* 15: timestamp_ms "1000" with a created_at that denotes another instant
       JsonLine(JDict([timestamp_ms |-> JStr("1000"),
                       created_at |-> JStr("Thu Jan 01 00:00:02 +0000 1970"),
                       id_str |-> JStr("45")])),
       \* 16: {"timestamp_ms": 0, "id_str": "45"} with a valid created_at
       JsonLine(JDict([timestamp_ms |-> JInt(0),
                       created_at |-> JStr("Thu Jan 01 00:00:01 +0000 1970"),
                       id_str |-> JStr("45")])),
       \* 17: {"created_at": "", "id_str": "45"}
       JsonLine(JDict([created_at |-> JStr(""), id_str |-> JStr("45")])),
       \* 18: {"created_at": "Thu Jan 01 00:00:02 +0000 1970", "id_str": "45"}
       JsonLine(JDict([created_at |-> JStr("Thu Jan 01 00:00:02 +0000 1970"),
                       id_str |-> JStr("45")])),
       \* 19: coordinates {"type": "Point"}, entities {}, place "Paris"
       JsonLine(JDict([timestamp_ms |-> JInt(1000), id_str |-> JStr("46"),
                       coordinates |-> JDict([type |-> JStr("Point")]),
                       entities |-> JDict(<<>>),
                       place |-> JStr("Paris")])),
       \* 20: coordinates {}, entities {"hashtags": []}, place {"name": "Paris"}
       JsonLine(JDict([timestamp_ms |-> JInt(1000), id_str |-> JStr("47"),
                       coordinates |-> JDict(<<>>),
                       entities |-> JDict([hashtags |-> JList(0)]),
                       place |-> JDict([name |-> JStr("Paris")])])),
       \* 21: coordinates null, entities 7, user {}, source []
       JsonLine(JDict([timestamp_ms |-> JInt(1000), id_str |-> JStr("48"),
                       coordinates |-> Null, entities |-> JInt(7),
                       user |-> JDict(<<>>), source |-> JList(0)])),
       \* 22: coordinates "here", entities [1], place 5, user 0
       JsonLine(JDict([timestamp_ms |-> JInt(1000), id_str |-> JStr("49"),
                       coordinates |-> JStr("here"), entities |-> JList(1),
                       place |-> JInt(5), user |-> JInt(0)])),
       \* 23: {"timestamp_ms": 1000, "id_str": "50", "user": "bob"}
       JsonLine(JDict([timestamp_ms |-> JInt(1000), id_str |-> JStr("50"),
                       user |-> JStr("bob")])),
       \* 24: {"timestamp_ms": 1000, "id_str": "51", "source": 5}
       JsonLine(JDict([timestamp_ms |-> JInt(1000), id_str |-> JStr("51"),
                       source |-> JInt(5)])),
       \* 25: {"timestamp_ms": 1000, "id_str": "52", "user": [1]}
       JsonLine(JDict([timestamp_ms |-> JInt(1000), id_str |-> JStr("52"),
                       user |-> JList(1)])) >>

Lines == FlowLines \o ShapeLines

LineIds == 1 .. Len(Lines)

(***************************************************************************)
(* The body of the line loop of process_files, as a function of the line:  *)
(* what the iteration does with it.                                        *)
(*   blank  the line is empty after strip(): nothing is counted            *)
(*   skip   read_count and skipped are incremented                         *)
(*   row    read_count is incremented and the row is appended to batch     *)
(*   raise  read_count is incremented and the exception leaves the loop    *)
(***************************************************************************)
HandleLine(line) ==
    IF line.kind = "blank" THEN [r |-> "blank"]
    ELSE IF line.kind = "text" THEN [r |-> "skip"]
    ELSE LET obj == line.v
         IN  IF ~IsDict(obj) THEN [r |-> "raise", exc |-> "AttributeError"]
             ELSE LET ts == parse_ts(obj)
                  IN  IF ts.r = "raise" THEN ts
                      ELSE IF ts.r = "none" THEN [r |-> "skip"]
                      ELSE LET id_str == Or(Get(obj, "id_str"),
                                            JStr(StrOf(GetDefault(obj, "id", JStr("")))))
                           IN  IF ~Truthy(id_str) THEN [r |-> "skip"]
                               ELSE LET x == extract_row(obj)
                                    IN  IF x.r = "raise" THEN x
                                        ELSE [r |-> "row",
                                              row |-> [ts |-> ts.ts,
                                                       id_str |-> StrOf(id_str)] @@ x.row]

(***************************************************************************)
(* The store: the table tweets (its columns, its hypertable registration,  *)
(* its committed rows as a bag) as the statements of the program see it.   *)
(***************************************************************************)
NoTable == [exists |-> FALSE, cols |-> {}, hyper |-> FALSE, rows |-> EmptyBag]

Columns ==
    {"ts", "id_str", "lang", "source", "screen_name", "place", "quote_count",
     "favorited", "coordinates", "entities", "friends_count", "user_id"}

AddedColumns ==
    {"quote_count", "favorited", "coordinates", "entities", "friends_count", "user_id"}

\* two rows the constraint UNIQUE(ts, id_str) does not allow together
SameKey(r1, r2) == r1.ts = r2.ts /\ r1.id_str = r2.id_str

Conflicts(rows, row) == \E r \in BagToSet(rows) : SameKey(r, row)

\* (mutation of InsertRow: the ON CONFLICT clause is missing)
InsertRowAlways(rows, row) == rows (+) SetToBag({row})

\* INSERT ... ON CONFLICT (ts, id_str) DO NOTHING of one row, into the rows the
\* statement sees
InsertRow(rows, row) == IF Conflicts(rows, row) THEN rows ELSE rows (+) SetToBag({row})

\* ALTER TABLE tweets ADD COLUMN IF NOT EXISTS col: old rows hold NULL in it
AddColumn(s, col) ==
    IF col \in s.cols THEN s
    ELSE [s EXCEPT !.cols = @ \cup {col},
                   !.rows = BagOfAll(LAMBDA r : (col :> Null) @@ r, @)]

RECURSIVE AddColumns(_, _)
AddColumns(s, cols) ==
    IF cols = {} THEN s
    ELSE LET c == CHOOSE c \in cols : TRUE
         IN  AddColumns(AddColumn(s, c), cols \ {c})

\* (mutation of ensure_schema: an existing table is always dropped)
ensure_schema_recreate(s) ==
    [exists |-> TRUE, cols |-> Columns, hyper |-> TRUE, rows |-> EmptyBag]

\* ensure_schema(conn), committed
ensure_schema(s) ==
    LET dropped == IF s.exists /\ "data" \in s.cols THEN NoTable ELSE s
        created == IF dropped.exists THEN dropped
                   ELSE [exists |-> TRUE, cols |-> Columns, hyper |-> FALSE,
                         rows |-> EmptyBag]
        altered == AddColumns(created, AddedColumns)
    IN  [altered EXCEPT !.hyper = TRUE]


(***************************************************************************)
(* State.                                                                  *)
(*   disk, env   the input directory and the configuration (never change)  *)
(*   store, txn  the table, and the rows each process's open transaction   *)
(*               has inserted and not yet committed                        *)
(*   mainpc ... summary   the coordinator: its position, its connection,   *)
(*               files, chunks, pool size n, the pool's task queue, the    *)
(*               number of tasks not finished, the results and failures    *)
(*               the pool collected, the totals printed                    *)
(*   proc        the pool processes, each with the locals of process_files *)
(*               and the batches it has flushed and committed              *)
(*   run, hist   the number of the run, and the outcome and store of every *)
(*               finished run (hist[1] is the store before the first run)  *)
(*   reads, invoked, schemaLog   what happened in this run: how often each *)
(*               path was opened, how often process_files was called on    *)
(*               each chunk, who executed the schema statements, how many  *)
(*               faults of the store the run has met                       *)
(***************************************************************************)
VARIABLES disk, env, store, txn, mainpc, conn, files, chunks, n, taskq, left,
          results, failed, summary, proc, run, hist, reads, invoked, schemaLog, faults

vars == <<disk, env, store, txn, mainpc, conn, files, chunks, n, taskq, left,
          results, failed, summary, proc, run, hist, reads, invoked, schemaLog, faults>>

BATCH_SIZE == env.BATCH_SIZE
N_WORKERS == env.N_WORKERS
CHUNK_SIZE == env.CHUNK_SIZE
MAX_FILES == env.MAX_FILES

\* rows per INSERT statement of execute_values (page_size, scaled)
PageSize == 2

Procs == 1 .. MaxWorkers

Min(a, b) == IF a <= b THEN a ELSE b

\* a pool process that runs no task
Idle(state) ==
    [pc |-> state, job |-> <<>>, out |-> <<>>, file_paths |-> <<>>, fi |-> 0, li |-> 0,
     batch |-> <<>>, inserted |-> 0, skipped |-> 0, read_count |-> 0,
     rowcount |-> 0, sent |-> 0, back |-> "", added |-> 0, flushed |-> <<>>]

(***************************************************************************)
(* The input scenarios: a directory, a configuration and a store.          *)
(***************************************************************************)
SeqsUpTo(S, k) == UNION {[1 .. m -> S] : m \in 0 .. k}

File(lines) == [isfile |-> TRUE, lines |-> lines]
Directory == [isfile |-> FALSE, lines |-> <<>>]

Env(b, w, c, m) == [BATCH_SIZE |-> b, N_WORKERS |-> w, CHUNK_SIZE |-> c, MAX_FILES |-> m]

\* a row of the table as process_files writes it
RowOf(id) == HandleLine(Lines[id]).row

\* the table as an earlier run of this program left it
Loaded == [exists |-> TRUE, cols |-> Columns, hyper |-> TRUE,
           rows |-> SetToBag({[RowOf(1) EXCEPT !.lang = JStr("de")]})]

\* the table as backfill.py left it: the single JSONB column data
Legacy == [exists |-> TRUE, cols |-> {"ts", "id_str", "data"}, hyper |-> TRUE,
           rows |-> SetToBag({[ts |-> 1000, id_str |-> "42", data |-> Lines[1].v]})]

\* the table as a version of the program before the six added columns left it
Older == [exists |-> TRUE, cols |-> Columns \ AddedColumns, hyper |-> TRUE,
          rows |-> SetToBag({[c \in Columns \ AddedColumns |-> RowOf(1)[c]]})]

\* a table tweets of another layout, without the column data
Partial == [exists |-> TRUE, cols |-> {"ts", "id_str", "lang"}, hyper |-> TRUE,
            rows |-> SetToBag({[c \in {"ts", "id_str", "lang"} |-> RowOf(1)[c]]})]

\* the table created and not yet registered as a hypertable
Bare == [exists |-> TRUE, cols |-> Columns, hyper |-> FALSE, rows |-> EmptyBag]

\* line handling: one file of any lines, one worker
LineScenarios ==
    { [disk |-> <<File(ls)>>, env |-> Env(2, 1, 20, 0), store |-> NoTable] :
        ls \in SeqsUpTo(DOMAIN FlowLines, MaxLines) \ {<<>>} }

\* record shapes: one file of one record, possibly followed by another line
ShapeScenarios ==
    { [disk |-> <<File(ls)>>, env |-> Env(2, 1, 20, 0), store |-> NoTable] :
        ls \in {<<i>> : i \in LineIds \ DOMAIN FlowLines}
                \cup {<<i, 4>> : i \in LineIds \ DOMAIN FlowLines} }

\* concurrency: two chunks of one file each, with keys in common
KeyFiles == {<<1>>, <<2>>, <<3>>, <<1, 3>>, <<3, 1>>}

KeyScenarios ==
    { [disk |-> <<File(l1), File(l2)>>, env |-> Env(b, 2, 1, 0), store |-> NoTable] :
        l1 \in KeyFiles, l2 \in KeyFiles, b \in 1 .. 2 }

\* batching: one chunk of two files with up to three distinct keys
BatchLineIds == {1, 3, 4}

BatchScenarios ==
    { [disk |-> <<File(l1), File(l2)>>, env |-> Env(b, 1, 2, 0), store |-> NoTable] :
        l1 \in SeqsUpTo(BatchLineIds, MaxKeyLines),
        l2 \in {<<>>, <<4>>, <<1, 3>>},
        b \in 1 .. MaxBatch }

\* partitioning: up to MaxPartFiles paths, the second of them possibly a
\* directory
PartScenarios ==
    { [disk |-> [i \in 1 .. k |-> IF i = d THEN Directory
                                  ELSE File(IF i = 1 THEN <<1>> ELSE <<>>)],
       env |-> Env(2, w, c, m), store |-> NoTable] :
        k \in 0 .. MaxPartFiles, d \in {0, 2}, w \in 1 .. MaxWorkers,
        c \in 1 .. 3, m \in {0, 3} }

\* the stores a run can find
StoreScenarios ==
    { [disk |-> <<File(ls)>>, env |-> Env(2, 1, 20, 0), store |-> s] :
        ls \in {<<>>, <<1>>, <<2, 3>>}, s \in {NoTable, Loaded, Legacy} }

\* the tables ensure_schema can find; a table it leaves without a column of
\* INSERT_SQL is followed by no file
SchemaScenarios ==
    { [disk |-> <<File(<<1>>)>>, env |-> Env(2, 1, 20, 0), store |-> s] :
        s \in {Older, Bare} }
    \cup { [disk |-> <<>>, env |-> Env(2, 1, 20, 0), store |-> s] :
              s \in {Older, Partial, Bare, Legacy} }

Scenarios ==
    LineScenarios \cup ShapeScenarios \cup KeyScenarios \cup BatchScenarios
        \cup PartScenarios \cup StoreScenarios \cup SchemaScenarios

Init ==
    /\ \E sc \in Scenarios :
        /\ disk = sc.disk
        /\ env = sc.env
        /\ store = sc.store
    /\ txn = [p \in Procs |-> EmptyBag]
    /\ mainpc = "start"
    /\ conn = "none"
    /\ files = <<>>
    /\ chunks = <<>>
    /\ n = 0
    /\ taskq = <<>>
    /\ left = 0
    /\ results = <<>>
    /\ failed = {}
    /\ summary = <<>>
    /\ proc = [p \in Procs |-> Idle("none")]
    /\ run = 1
    /\ hist = <<[outcome |-> "init", store |-> store]>>
    /\ reads = [f \in DOMAIN disk |-> 0]
    /\ invoked = <<>>
    /\ schemaLog = <<>>
    /\ faults = 0


(***************************************************************************)
(* The coordinator, main().                                                *)
(***************************************************************************)
\* sorted(S) of a set of paths
RECURSIVE Sorted(_)
Sorted(S) ==
    IF S = {} THEN <<>>
    ELSE LET m == CHOOSE x \in S : \A y \in S : x <= y
         IN  <<m>> \o Sorted(S \ {m})

\* s[:k]
Take(s, k) == SubSeq(s, 1, Min(k, Len(s)))

\* [s[i : i + size] for i in range(0, len(s), size)]
Slices(s, size) ==
    [j \in 1 .. ((Len(s) + size - 1) \div size) |->
        SubSeq(s, (j - 1) * size + 1, Min(j * size, Len(s)))]

\* the paths glob finds, filtered, sorted and capped by MAX_FILES
Discovered(d, max) ==
    LET found == Sorted(DOMAIN d)
        max_files == IF max # 0 THEN max ELSE Len(found)
    IN  Take(found, max_files)

\* (mutation of Chunks: the last, shorter slice is dropped)
ChunksWhole(fs, size) ==
    LET cs == Slices(fs, Min(size, Len(fs)))
    IN  IF Len(cs[Len(cs)]) < Min(size, Len(fs)) THEN SubSeq(cs, 1, Len(cs) - 1) ELSE cs

\* chunks of main
Chunks(fs, size) == Slices(fs, Min(size, Len(fs)))

\* n of main: the size of the pool
PoolSize(workers, cs) == Min(workers, Len(cs))

\* (mutation of MapTasks: every item is also put in a task of its own)
MapTasksTwice(k, size) == [i \in 1 .. 2 * k |-> <<((i - 1) % k) + 1>>]

\* the tasks Pool.map makes of k items for a pool of size processes: runs of
\* consecutive items, each run executed by one process
MapTasks(k, size) ==
    LET q == k \div (size * 4)
        chunksize == IF k % (size * 4) # 0 THEN q + 1 ELSE q
    IN  Slices([i \in 1 .. k |-> i], chunksize)

RECURSIVE Sum(_, _)
Sum(s, field) == IF s = <<>> THEN 0 ELSE Head(s)[field] + Sum(Tail(s), field)

\* conn = psycopg2.connect(PG_CONN)
Connect ==
    /\ mainpc = "start"
    /\ mainpc' = "schema"
    /\ conn' = "open"
    /\ UNCHANGED <<disk, env, store, txn, files, chunks, n, taskq, left, results,
                   failed, summary, proc, run, hist, reads, invoked, schemaLog, faults>>

\* ensure_schema(conn)
EnsureSchema ==
    /\ mainpc = "schema"
    /\ mainpc' = "close"
    /\ store' = ensure_schema(store)
    /\ schemaLog' = Append(schemaLog, "main")
    /\ UNCHANGED <<disk, env, txn, conn, files, chunks, n, taskq, left, results,
                   failed, summary, proc, run, hist, reads, invoked, faults>>

\* (mutation of CloseConn: the connection is left open)
CloseConnLeak ==
    /\ mainpc = "close"
    /\ mainpc' = "discover"
    /\ UNCHANGED <<disk, env, store, txn, conn, files, chunks, n, taskq, left, results,
                   failed, summary, proc, run, hist, reads, invoked, schemaLog, faults>>

\* conn.close()
CloseConn ==
    /\ mainpc = "close"
    /\ mainpc' = "discover"
    /\ conn' = "closed"
    /\ UNCHANGED <<disk, env, store, txn, files, chunks, n, taskq, left, results,
                   failed, summary, proc, run, hist, reads, invoked, schemaLog, faults>>

\* glob, sort, cap; "No files found." ends the run
Discover ==
    /\ mainpc = "discover"
    /\ files' = Discovered(disk, MAX_FILES)
    /\ IF files' = <<>>
       THEN /\ mainpc' = "done"
            /\ hist' = Append(hist, [outcome |-> "nofiles", store |-> store])
       ELSE /\ mainpc' = "partition"
            /\ hist' = hist
    /\ UNCHANGED <<disk, env, store, txn, conn, chunks, n, taskq, left, results,
                   failed, summary, proc, run, reads, invoked, schemaLog, faults>>

\* chunk_size, chunks, worker_args, n, and the pool of n processes
Partition ==
    /\ mainpc = "partition"
    /\ mainpc' = "map"
    /\ chunks' = Chunks(files, CHUNK_SIZE)
    /\ n' = PoolSize(N_WORKERS, chunks')
    /\ proc' = [p \in Procs |-> IF p <= n' THEN Idle("idle") ELSE proc[p]]
    /\ invoked' = [c \in 1 .. Len(chunks') |-> 0]
    /\ UNCHANGED <<disk, env, store, txn, conn, files, taskq, left, results, failed,
                   summary, run, hist, reads, schemaLog, faults>>

\* pool.map(process_files, worker_args) puts its tasks on the queue
MapStart ==
    /\ mainpc = "map"
    /\ mainpc' = "wait"
    /\ taskq' = MapTasks(Len(chunks), n)
    /\ left' = Len(taskq')
    /\ results' = [c \in 1 .. Len(chunks) |-> <<>>]
    /\ UNCHANGED <<disk, env, store, txn, conn, files, chunks, n, failed, summary,
                   proc, run, hist, reads, invoked, schemaLog, faults>>

\* (mutation of MapEnd: the triples of the chunks that did not fail are
\* summed and printed)
MapEndPartial ==
    /\ mainpc = "wait"
    /\ left = 0
    /\ proc' = [p \in Procs |-> Idle("none")]
    /\ mainpc' = "done"
    /\ summary' = LET done == SelectSeq(results, LAMBDA r : r # <<>>)
                  IN  [total_inserted |-> Sum(done, "inserted"),
                       total_skipped |-> Sum(done, "skipped"),
                       total_read |-> Sum(done, "read_count")]
    /\ hist' = Append(hist, [outcome |-> "done", store |-> store])
    /\ UNCHANGED <<disk, env, store, txn, conn, files, chunks, n, taskq, left,
                   results, failed, run, reads, invoked, schemaLog, faults>>

\* pool.map returns when every task has ended: it raises the exception of a
\* failed task, otherwise main sums the triples and prints them
MapEnd ==
    /\ mainpc = "wait"
    /\ left = 0
    /\ proc' = [p \in Procs |-> Idle("none")]
    /\ IF failed # {}
       THEN /\ mainpc' = "failed"
            /\ summary' = summary
            /\ hist' = Append(hist, [outcome |-> "failed", store |-> store])
       ELSE /\ mainpc' = "done"
            /\ summary' = [total_inserted |-> Sum(results, "inserted"),
                           total_skipped |-> Sum(results, "skipped"),
                           total_read |-> Sum(results, "read_count")]
            /\ hist' = Append(hist, [outcome |-> "done", store |-> store])
    /\ UNCHANGED <<disk, env, store, txn, conn, files, chunks, n, taskq, left,
                   results, failed, run, reads, invoked, schemaLog, faults>>

\* main, having completed, is run again over the same directory and store
Rerun ==
    /\ mainpc = "done"
    /\ run < MaxRuns
    /\ run' = run + 1
    /\ mainpc' = "start"
    /\ conn' = "none"
    /\ files' = <<>>
    /\ chunks' = <<>>
    /\ n' = 0
    /\ taskq' = <<>>
    /\ left' = 0
    /\ results' = <<>>
    /\ failed' = {}
    /\ summary' = <<>>
    /\ reads' = [f \in DOMAIN disk |-> 0]
    /\ invoked' = <<>>
    /\ schemaLog' = <<>>
    /\ faults' = 0
    /\ UNCHANGED <<disk, env, store, txn, proc, hist>>


(***************************************************************************)
(* The pool processes, each executing process_files on the chunks of the   *)
(* task it took.                                                           *)
(***************************************************************************)
\* the chunk process p works on
Chunk(p) == Head(proc[p].job)

\* the path process p is at, and the line it is at
Path(p) == proc[p].file_paths[proc[p].fi]

AtLine(p) ==
    /\ proc[p].pc = "lines"
    /\ proc[p].li <= Len(disk[Path(p)].lines)

Line(p) == Lines[disk[Path(p)].lines[proc[p].li]]

\* the row the INSERT of process p handles next
NextRow(p) == proc[p].batch[proc[p].sent + 1]

\* the rows INSERT ... ON CONFLICT DO NOTHING adds for one row, given the rows
\* its transaction sees
Inserted(seen, row) == InsertRow(seen, row) (-) seen

\* the row is held, uncommitted, by the transaction of process q: the INSERT
\* of p waits for that transaction to end
WaitsFor(p, q) ==
    /\ p # q
    /\ proc[p].pc = "insert"
    /\ Conflicts(txn[q], NextRow(p))

\* p waits for q directly or through other waiting processes
RECURSIVE WaitsForPath(_, _, _)
WaitsForPath(p, q, k) ==
    \/ WaitsFor(p, q)
    \/ /\ k > 1
       /\ \E o \in Procs \ {p, q} : WaitsFor(p, o) /\ WaitsForPath(o, q, k - 1)

Deadlocked(p) == \E q \in Procs \ {p} : WaitsFor(p, q) /\ WaitsForPath(q, p, MaxWorkers)

\* an exception leaves process_files: the task fails, the connection is
\* dropped with its open transaction, the process serves the next task
Raise(p, exc, line) ==
    /\ failed' = failed \cup {[chunk |-> Chunk(p), exc |-> exc, line |-> line,
                                at |-> proc[p].pc, batch |-> proc[p].batch,
                                flushed |-> proc[p].flushed]}
    /\ left' = left - 1
    /\ txn' = [txn EXCEPT ![p] = EmptyBag]
    /\ proc' = [proc EXCEPT ![p] = Idle("idle")]

\* an idle process takes the next task of the queue; the pool processes are
\* alike, so among the idle ones the first is the one that takes it
TakeTask(p) ==
    /\ mainpc = "wait"
    /\ proc[p].pc = "idle"
    /\ \A q \in Procs : q < p => proc[q].pc # "idle"
    /\ taskq # <<>>
    /\ taskq' = Tail(taskq)
    /\ proc' = [proc EXCEPT ![p] = [Idle("call") EXCEPT !.job = Head(taskq)]]
    /\ UNCHANGED <<disk, env, store, txn, mainpc, conn, files, chunks, n, left,
                   results, failed, summary, run, hist, reads, invoked, schemaLog, faults>>

\* process_files(args) begins: connection, cursor, empty batch, zero counts
Call(p) ==
    /\ proc[p].pc = "call"
    /\ proc' = [proc EXCEPT ![p] =
                  [Idle("files") EXCEPT !.job = proc[p].job, !.out = proc[p].out,
                                        !.file_paths = chunks[Chunk(p)], !.fi = 1]]
    /\ invoked' = [invoked EXCEPT ![Chunk(p)] = @ + 1]
    /\ UNCHANGED <<disk, env, store, txn, mainpc, conn, files, chunks, n, taskq, left,
                   results, failed, summary, run, hist, reads, schemaLog, faults>>

\* psycopg2.connect(pg_conn) raises: the store refuses the connection
ConnectFail(p) ==
    /\ proc[p].pc = "call"
    /\ faults < MaxFaults
    /\ faults' = faults + 1
    /\ invoked' = [invoked EXCEPT ![Chunk(p)] = @ + 1]
    /\ Raise(p, "OperationalError", 0)
    /\ UNCHANGED <<disk, env, store, mainpc, conn, files, chunks, n, taskq, results,
                   summary, run, hist, reads, schemaLog>>

\* (mutation of NextPath: the rest of the batch is not flushed)
NextPathNoFlush(p) ==
    /\ proc[p].pc = "files"
    /\ IF proc[p].fi > Len(proc[p].file_paths)
       THEN /\ proc' = [proc EXCEPT ![p].pc = "return"]
            /\ reads' = reads
       ELSE IF ~disk[Path(p)].isfile
       THEN /\ proc' = [proc EXCEPT ![p].fi = @ + 1]
            /\ reads' = reads
       ELSE /\ proc' = [proc EXCEPT ![p].pc = "lines", ![p].li = 1]
            /\ reads' = [reads EXCEPT ![Path(p)] = @ + 1]
    /\ UNCHANGED <<disk, env, store, txn, mainpc, conn, files, chunks, n, taskq, left,
                   results, failed, summary, run, hist, invoked, schemaLog, faults>>

\* for path in file_paths: a path that is no file is passed over, a file is
\* opened; after the last path the rest of the batch is flushed
NextPath(p) ==
    /\ proc[p].pc = "files"
    /\ IF proc[p].fi > Len(proc[p].file_paths)
       THEN /\ proc' = [proc EXCEPT ![p].pc = IF proc[p].batch # <<>> THEN "insert"
                                              ELSE "return",
                                    ![p].sent = 0,
                                    ![p].back = "return"]
            /\ reads' = reads
       ELSE IF ~disk[Path(p)].isfile
       THEN /\ proc' = [proc EXCEPT ![p].fi = @ + 1]
            /\ reads' = reads
       ELSE /\ proc' = [proc EXCEPT ![p].pc = "lines", ![p].li = 1]
            /\ reads' = [reads EXCEPT ![Path(p)] = @ + 1]
    /\ UNCHANGED <<disk, env, store, txn, mainpc, conn, files, chunks, n, taskq, left,
                   results, failed, summary, run, hist, invoked, schemaLog, faults>>

\* (mutation of Full: the buffer is flushed one row late)
FullLate(batch) == Len(batch) > BATCH_SIZE

\* len(batch) >= BATCH_SIZE
Full(batch) == Len(batch) >= BATCH_SIZE

\* for line in f: one iteration, or the end of the file
ReadLine(p) ==
    /\ proc[p].pc = "lines"
    /\ IF ~AtLine(p)
       THEN /\ proc' = [proc EXCEPT ![p].pc = "files", ![p].fi = @ + 1]
            /\ UNCHANGED <<txn, left, failed>>
       ELSE LET h == HandleLine(Line(p))
            IN  CASE h.r = "blank" ->
                       /\ proc' = [proc EXCEPT ![p].li = @ + 1]
                       /\ UNCHANGED <<txn, left, failed>>
                  [] h.r = "skip" ->
                       /\ proc' = [proc EXCEPT ![p].li = @ + 1,
                                               ![p].read_count = @ + 1,
                                               ![p].skipped = @ + 1]
                       /\ UNCHANGED <<txn, left, failed>>
                  [] h.r = "row" ->
                       /\ proc' = [proc EXCEPT
                                     ![p].li = @ + 1,
                                     ![p].read_count = @ + 1,
                                     ![p].batch = Append(@, h.row),
                                     ![p].pc = IF Full(Append(proc[p].batch, h.row))
                                               THEN "insert" ELSE "lines",
                                     ![p].sent = 0,
                                     ![p].back = "lines"]
                       /\ UNCHANGED <<txn, left, failed>>
                  [] h.r = "raise" ->
                       Raise(p, h.exc, disk[Path(p)].lines[proc[p].li])
    /\ UNCHANGED <<disk, env, store, mainpc, conn, files, chunks, n, taskq, results,
                   summary, run, hist, reads, invoked, schemaLog, faults>>

\* execute_values(cur, INSERT_SQL, batch): the next row of the batch.  Every
\* PageSize rows are one INSERT statement, and cur.rowcount is that of the
\* statement executed last.  A row whose key another open transaction has
\* inserted waits until that transaction ends.
ExecuteRow(p) ==
    /\ proc[p].pc = "insert"
    /\ ~\E q \in Procs : WaitsFor(p, q)
    /\ LET new == Inserted(store.rows (+) txn[p], NextRow(p))
           before == IF proc[p].sent % PageSize = 0 THEN 0 ELSE proc[p].rowcount
       IN  /\ txn' = [txn EXCEPT ![p] = @ (+) new]
           /\ proc' = [proc EXCEPT
                         ![p].sent = @ + 1,
                         ![p].rowcount = before + BagCardinality(new),
                         ![p].added = @ + BagCardinality(new),
                         ![p].pc = IF proc[p].sent + 1 = Len(proc[p].batch)
                                   THEN "commit" ELSE "insert"]
    /\ UNCHANGED <<disk, env, store, mainpc, conn, files, chunks, n, taskq, left,
                   results, failed, summary, run, hist, reads, invoked, schemaLog, faults>>

\* the store ends a cycle of waiting transactions by failing the statement
\* of one of them
Deadlock(p) ==
    /\ proc[p].pc = "insert"
    /\ Deadlocked(p)
    /\ Raise(p, "DeadlockDetected", 0)
    /\ UNCHANGED <<disk, env, store, mainpc, conn, files, chunks, n, taskq, results,
                   summary, run, hist, reads, invoked, schemaLog, faults>>

\* (mutation of FlushFail: the failure also undoes what the run committed)
FlushFailLosesAll(p) ==
    /\ proc[p].pc \in {"insert", "commit"}
    /\ faults < MaxFaults
    /\ faults' = faults + 1
    /\ Raise(p, "OperationalError", 0)
    /\ store' = [store EXCEPT !.rows = ensure_schema(hist[run].store).rows]
    /\ UNCHANGED <<disk, env, mainpc, conn, files, chunks, n, taskq, results,
                   summary, run, hist, reads, invoked, schemaLog>>

\* execute_values or conn.commit() raises: the store fails the statement or
\* the connection is lost
FlushFail(p) ==
    /\ proc[p].pc \in {"insert", "commit"}
    /\ faults < MaxFaults
    /\ faults' = faults + 1
    /\ Raise(p, "OperationalError", 0)
    /\ UNCHANGED <<disk, env, store, mainpc, conn, files, chunks, n, taskq, results,
                   summary, run, hist, reads, invoked, schemaLog>>

\* (mutation of Commit: the batch is counted and not committed)
CommitCountOnly(p) ==
    /\ proc[p].pc = "commit"
    /\ proc' = [proc EXCEPT ![p].inserted = @ + proc[p].rowcount,
                            ![p].batch = <<>>,
                            ![p].flushed = Append(@, [rows |-> proc[p].batch,
                                                      at |-> proc[p].back,
                                                      rowcount |-> proc[p].rowcount]),
                            ![p].pc = proc[p].back]
    /\ UNCHANGED <<disk, env, store, txn, mainpc, conn, files, chunks, n, taskq, left,
                   results, failed, summary, run, hist, reads, invoked, schemaLog, faults>>

\* (mutation of Commit: the buffer is not cleared)
CommitKeepBatch(p) ==
    /\ proc[p].pc = "commit"
    /\ store' = [store EXCEPT !.rows = @ (+) txn[p]]
    /\ txn' = [txn EXCEPT ![p] = EmptyBag]
    /\ proc' = [proc EXCEPT ![p].inserted = @ + proc[p].rowcount,
                            ![p].flushed = Append(@, [rows |-> proc[p].batch,
                                                      at |-> proc[p].back,
                                                      rowcount |-> proc[p].rowcount]),
                            ![p].pc = proc[p].back]
    /\ UNCHANGED <<disk, env, mainpc, conn, files, chunks, n, taskq, left, results,
                   failed, summary, run, hist, reads, invoked, schemaLog, faults>>

\* inserted += cur.rowcount; conn.commit(); batch = []
Commit(p) ==
    /\ proc[p].pc = "commit"
    /\ store' = [store EXCEPT !.rows = @ (+) txn[p]]
    /\ txn' = [txn EXCEPT ![p] = EmptyBag]
    /\ proc' = [proc EXCEPT ![p].inserted = @ + proc[p].rowcount,
                            ![p].batch = <<>>,
                            ![p].flushed = Append(@, [rows |-> proc[p].batch,
                                                      at |-> proc[p].back,
                                                      rowcount |-> proc[p].rowcount]),
                            ![p].pc = proc[p].back]
    /\ UNCHANGED <<disk, env, mainpc, conn, files, chunks, n, taskq, left, results,
                   failed, summary, run, hist, reads, invoked, schemaLog, faults>>

\* cur.close(); conn.close(); return inserted, skipped, read_count.  The
\* task ends with its last chunk and hands its triples to the pool.
Return(p) ==
    /\ proc[p].pc = "return"
    /\ LET triple == [chunk |-> Chunk(p), inserted |-> proc[p].inserted,
                      skipped |-> proc[p].skipped, read_count |-> proc[p].read_count,
                      added |-> proc[p].added]
           out == Append(proc[p].out, triple)
       IN  IF Len(proc[p].job) > 1
           THEN /\ proc' = [proc EXCEPT ![p] = [Idle("call") EXCEPT
                                                  !.job = Tail(proc[p].job),
                                                  !.out = out]]
                /\ UNCHANGED <<results, left>>
           ELSE /\ proc' = [proc EXCEPT ![p] = Idle("idle")]
                /\ results' = [c \in DOMAIN results |->
                                 IF \E i \in DOMAIN out : out[i].chunk = c
                                 THEN out[CHOOSE i \in DOMAIN out : out[i].chunk = c]
                                 ELSE results[c]]
                /\ left' = left - 1
    /\ UNCHANGED <<disk, env, store, txn, mainpc, conn, files, chunks, n, taskq,
                   failed, summary, run, hist, reads, invoked, schemaLog, faults>>

Next ==
    \/ Connect
    \/ EnsureSchema
    \/ CloseConn
    \/ Discover
    \/ Partition
    \/ MapStart
    \/ MapEnd
    \/ Rerun
    \/ \E p \in Procs : TakeTask(p)
    \/ \E p \in Procs : Call(p)
    \/ \E p \in Procs : ConnectFail(p)
    \/ \E p \in Procs : NextPath(p)
    \/ \E p \in Procs : ReadLine(p)
    \/ \E p \in Procs : ExecuteRow(p)
    \/ \E p \in Procs : Deadlock(p)
    \/ \E p \in Procs : FlushFail(p)
    \/ \E p \in Procs : Commit(p)
    \/ \E p \in Procs : Return(p)

Spec == Init /\ [][Next]_vars


(***************************************************************************)
(* Properties.                                                             *)
(***************************************************************************)
\* the (ts, id_str) pairs of a bag of rows
Keys(rows) == {<<r.ts, r.id_str>> : r \in BagToSet(rows)}

\* the table the workers of this run started from
StartRows == ensure_schema(hist[run].store).rows

\* the line numbers of the regular files among paths, in reading order
RECURSIVE FileLines(_)
FileLines(paths) ==
    IF paths = <<>> THEN <<>>
    ELSE (IF disk[Head(paths)].isfile THEN disk[Head(paths)].lines ELSE <<>>)
            \o FileLines(Tail(paths))

\* the table after one connection has inserted the rows of the lines in order
RECURSIVE Load(_, _)
Load(rows, ls) ==
    IF ls = <<>> THEN rows
    ELSE LET h == HandleLine(Lines[Head(ls)])
         IN  Load(IF h.r = "row" THEN InsertRow(rows, h.row) ELSE rows, Tail(ls))

\* the keys of the lines that resolve to a row
LineKeys(ls) ==
    {<<HandleLine(Lines[ls[i]]).row.ts, HandleLine(Lines[ls[i]]).row.id_str>> :
        i \in {j \in DOMAIN ls : HandleLine(Lines[ls[j]]).r = "row"}}

RECURSIVE Flatten(_)
Flatten(ss) == IF ss = <<>> THEN <<>> ELSE Head(ss) \o Flatten(Tail(ss))

Range(f) == {f[i] : i \in DOMAIN f}

\* process p has taken a step
Stepped(p) == proc'[p] # proc[p]

\* process p is inside process_files
Active(p) == proc[p].pc \in {"files", "lines", "insert", "commit", "return"}

\* C1: once main has completed over a file set, running it again over the
\* same file set adds no row: at every moment of the later run the table
\* holds the rows, the row count and the keys the earlier run left.
C1_RerunAddsNoRow ==
    run >= 2 =>
        /\ store.rows = hist[run].store.rows
        /\ BagCardinality(store.rows) = BagCardinality(hist[run].store.rows)
        /\ Keys(store.rows) = Keys(hist[run].store.rows)

\* C1 (witness): a second run of two workers has completed over files that
\* loaded rows
C1_Witness ==
    /\ run = 2
    /\ mainpc = "done"
    /\ n = 2
    /\ summary.total_read >= 2
    /\ BagCardinality(store.rows) >= 2

\* C2 (as claimed): the table never holds two rows of one (ts, id_str) pair,
\* and no INSERT of a worker fails for a key another worker inserts too.
C2_DuplicatesNeverFail ==
    /\ \A r1, r2 \in BagToSet(store.rows) : SameKey(r1, r2) => r1 = r2
    /\ \A r \in BagToSet(store.rows) : CopiesIn(r, store.rows) = 1
    /\ \A f \in failed : f.exc # "DeadlockDetected"

\* a record with neither timestamp field, or with no identifier: no id_str and
\* no id that is a number or a non-empty string
NoTimestamp(obj) ==
    /\ Get(obj, "timestamp_ms") = Null
    /\ Get(obj, "created_at") \in {Null, JStr("")}

NoIdentifier(obj) ==
    /\ Get(obj, "id_str") \in {Null, JStr("")}
    /\ Get(obj, "id") \in {Null, JStr("")}

Unresolvable(line) ==
    /\ line.kind = "json"
    /\ IsDict(line.v)
    /\ NoTimestamp(line.v) \/ NoIdentifier(line.v)

\* C3 (as claimed): the iteration over a record with no resolvable timestamp
\* or no resolvable identifier appends nothing to the batch, adds one to
\* read_count and to skipped, and leaves inserted alone.
C3_UnresolvableSkipped ==
    [][\A p \in Procs :
         (AtLine(p) /\ Unresolvable(Line(p)) /\ Stepped(p)) =>
            /\ proc'[p].batch = proc[p].batch
            /\ proc'[p].read_count = proc[p].read_count + 1
            /\ proc'[p].skipped = proc[p].skipped + 1
            /\ proc'[p].inserted = proc[p].inserted]_vars

\* a record whose timestamp field is there and malformed
MalformedTimestamp(line) ==
    /\ line.kind = "json"
    /\ IsDict(line.v)
    /\ LET ms == Get(line.v, "timestamp_ms")
           created == Get(line.v, "created_at")
       IN  \/ ms.t = "str" /\ ~IntOf(ms).ok
           \/ ms = Null /\ created.t = "str" /\ created.s # "" /\ ~Strptime(created).ok

\* C4 (as claimed): the iteration over a record with a malformed timestamp
\* counts it as skipped, appends nothing, and goes on to the next line.
C4_MalformedTimestampSkipped ==
    [][\A p \in Procs :
         (AtLine(p) /\ MalformedTimestamp(Line(p)) /\ Stepped(p)) =>
            /\ proc'[p].pc = "lines"
            /\ proc'[p].li = proc[p].li + 1
            /\ proc'[p].skipped = proc[p].skipped + 1
            /\ proc'[p].batch = proc[p].batch]_vars

\* a non-empty line that is no structured record: not JSON, or JSON whose
\* top-level value is no object
NotARecord(line) == line.kind = "text" \/ (line.kind = "json" /\ ~IsDict(line.v))

\* C5 (as claimed): the iteration over a line that is no structured record
\* adds one to skipped and goes on to the next line.
C5_UnparsableSkipped ==
    [][\A p \in Procs :
         (AtLine(p) /\ NotARecord(Line(p)) /\ Stepped(p)) =>
            /\ proc'[p].pc = "lines"
            /\ proc'[p].li = proc[p].li + 1
            /\ proc'[p].skipped = proc[p].skipped + 1]_vars

\* C6 (as claimed): the inserted count process_files returns is the number
\* of rows its inserts added to the table, and the total main prints is the
\* growth of the table over the run.
C6_InsertedIsAdded ==
    /\ \A p \in Procs : proc[p].pc = "return" => proc[p].inserted = proc[p].added
    /\ (mainpc = "done" /\ files # <<>>) =>
          summary.total_inserted = BagCardinality(store.rows) - BagCardinality(StartRows)

\* C7 (as claimed): whatever the order of the chunks and of the commits, a
\* completed run leaves the table one connection loading the files in sorted
\* order leaves, in every column of every row.
C7_FinalTableIsSequential ==
    (mainpc = "done" /\ files # <<>>) => store.rows = Load(StartRows, FileLines(files))

\* C7 (amended): whatever the order of the chunks and of the commits, a
\* completed run leaves the table with exactly the keys it started with and
\* the keys of the lines that resolve to a row, one row for each.
C7_FinalKeysAreOrderFree ==
    (mainpc = "done" /\ files # <<>>) =>
        /\ Keys(store.rows) = Keys(StartRows) \cup LineKeys(FileLines(files))
        /\ BagCardinality(store.rows) = Cardinality(Keys(store.rows))

\* C7 (witness): a run of two workers has completed with a table that
\* differs, in a column that is no key, from the sequential load
C7_Witness ==
    /\ mainpc = "done"
    /\ n = 2
    /\ Keys(store.rows) = Keys(Load(StartRows, FileLines(files)))
    /\ store.rows # Load(StartRows, FileLines(files))

\* C8: in a run the schema statements are executed at most once and by main
\* alone; while the pool exists and ever after, they have been executed
\* exactly once, are committed (the table is there with its columns, as a
\* hypertable) and the connection of main is closed.
C8_SchemaOnceBeforeWorkers ==
    /\ Len(schemaLog) <= 1
    /\ \A i \in DOMAIN schemaLog : schemaLog[i] = "main"
    /\ ((\E p \in Procs : proc[p].pc # "none") \/ mainpc \in {"map", "wait", "failed"}
            \/ (mainpc = "done" /\ files # <<>>)) =>
          /\ schemaLog = <<"main">>
          /\ conn = "closed"
          /\ store.exists /\ store.hyper /\ Columns \subseteq store.cols

\* C8 (witness): a worker is reading lines
C8_Witness ==
    /\ \E p \in Procs : AtLine(p)
    /\ schemaLog = <<"main">>
    /\ conn = "closed"

\* C9: the chunks, concatenated in order, are the file list; every chunk but
\* the last has CHUNK_SIZE files and the last has between one and CHUNK_SIZE;
\* n is the smaller of N_WORKERS and the number of chunks.  45 files in
\* chunks of 20 are chunks of 20, 20 and 5 files, for at most 3 workers.
C9_ChunksPartitionFiles ==
    /\ mainpc \in {"map", "wait", "failed"} \/ (mainpc = "done" /\ files # <<>>) =>
          /\ Flatten(chunks) = files
          /\ \A i \in 1 .. Len(files) - 1 : files[i] < files[i + 1]
          /\ \A i \in 1 .. Len(chunks) - 1 : Len(chunks[i]) = CHUNK_SIZE
          /\ Len(chunks) >= 1
          /\ Len(chunks[Len(chunks)]) \in 1 .. CHUNK_SIZE
          /\ n = Min(N_WORKERS, Len(chunks))
          /\ n >= 1
    /\ LET cs == Chunks([i \in 1 .. 45 |-> i], 20)
       IN  /\ [i \in DOMAIN cs |-> Len(cs[i])] = <<20, 20, 5>>
           /\ PoolSize(8, cs) = 3

\* C9 (witness): three files in chunks of two, for two workers
C9_Witness ==
    /\ mainpc = "wait"
    /\ Len(files) = 3
    /\ Len(chunks) = 2
    /\ Len(chunks[1]) = 2
    /\ Len(chunks[2]) = 1
    /\ n = 2

\* C10 (as claimed): when a run has ended having met no other failure than a
\* refused connection, every discovered file has been read exactly once.
C10_EveryFileReadOnce ==
    (mainpc \in {"done", "failed"} /\ files # <<>>
        /\ \A f \in failed : f.exc = "OperationalError") =>
            \A f \in Range(files) : disk[f].isfile => reads[f] = 1

\* C10 (amended): process_files is called at most once on a chunk, on the
\* whole chunk; no file is opened twice, and no two processes are inside
\* process_files with a path in common; when the run has completed, every
\* chunk has had its call and every discovered file has been read once.
C10_ChunkToOneWorker ==
    /\ \A c \in DOMAIN invoked : invoked[c] <= 1
    /\ \A f \in DOMAIN reads : reads[f] <= 1
    /\ \A p \in Procs : Active(p) => proc[p].file_paths = chunks[Chunk(p)]
    /\ \A p, q \in Procs :
          (p # q /\ Active(p) /\ Active(q)) =>
              Range(proc[p].file_paths) \cap Range(proc[q].file_paths) = {}
    /\ (mainpc = "done" /\ files # <<>>) =>
          /\ \A c \in DOMAIN invoked : invoked[c] = 1
          /\ \A f \in DOMAIN disk :
                reads[f] = IF f \in Range(files) /\ disk[f].isfile THEN 1 ELSE 0

\* C10 (witness): two workers are reading lines of different files
C10_Witness ==
    \E p, q \in Procs : p # q /\ AtLine(p) /\ AtLine(q) /\ Path(p) # Path(q)

\* the rows of a table, each cut down to the columns cols
Project(rows, cols) == BagOfAll(LAMBDA r : [c \in cols |-> r[c]], rows)

\* main executes ensure_schema in this step
SchemaStep == mainpc = "schema" /\ mainpc' = "close"

C11_FailureFailsRun ==
    /\ failed # {} => (summary = <<>> /\ mainpc \in {"wait", "failed"})
    /\ mainpc = "failed" =>
          /\ failed # {}
          /\ summary = <<>>
          /\ hist[Len(hist)].outcome = "failed"
    /\ (mainpc = "done" /\ files # <<>>) =>
          /\ failed = {}
          /\ \A c \in DOMAIN results : results[c] # <<>>
          /\ summary = [total_inserted |-> Sum(results, "inserted"),
                        total_skipped |-> Sum(results, "skipped"),
                        total_read |-> Sum(results, "read_count")]
    /\ \A f \in failed :
          /\ invoked[f.chunk] = 1
          /\ results[f.chunk] = <<>>
          /\ \A p \in Procs : proc[p].job # <<>> => f.chunk \notin Range(proc[p].job)
          /\ \A i \in DOMAIN taskq : f.chunk \notin Range(taskq[i])

\* C11 (witness): a run of two workers has failed although another chunk had
\* returned its triple with inserted rows
C11_Witness ==
    /\ mainpc = "failed"
    /\ n = 2
    /\ summary = <<>>
    /\ \E c \in DOMAIN results : results[c] # <<>> /\ results[c].inserted > 0
    /\ \E f \in failed : f.exc = "OperationalError" /\ f.at = "commit"

\* a field that is there: the key is present and its value is not null
Present(obj, key) == Get(obj, key) # Null

\* a timestamp_ms that is a number or a decimal numeral
ValidMs(v) == v.t = "int" \/ (v.t = "str" /\ \E k \in Numerals : ToString(k) = v.s)

\* the instant a valid timestamp_ms denotes, in ms since the epoch
MsOf(v) == IF v.t = "int" THEN v.i ELSE CHOOSE k \in Numerals : ToString(k) = v.s

\* obj without the key
Without(obj, key) == JDict([k \in DOMAIN obj.d \ {key} |-> obj.d[k]])

\* process p is at a line that is a JSON object
AtRecord(p) == AtLine(p) /\ Line(p).kind = "json" /\ IsDict(Line(p).v)

\* the iteration of process p appends a row to its batch in this step
Appended(p) ==
    /\ AtLine(p)
    /\ Stepped(p)
    /\ Len(proc'[p].batch) = Len(proc[p].batch) + 1

NewRow(p) == proc'[p].batch[Len(proc'[p].batch)]

\* C12 (as claimed): parse_ts gives the instant of a valid timestamp_ms
\* whatever created_at holds, and gives "no timestamp" only for a record in
\* which both fields are absent.
C12_NoTimestampOnlyWhenAbsent ==
    [][\A p \in Procs :
         (AtRecord(p) /\ Stepped(p)) =>
            LET obj == Line(p).v
            IN  /\ (Present(obj, "timestamp_ms") /\ ValidMs(Get(obj, "timestamp_ms"))) =>
                      parse_ts(obj) = [r |-> "ts", ts |-> MsOf(Get(obj, "timestamp_ms"))]
                /\ parse_ts(obj).r = "none" =>
                      (~Present(obj, "timestamp_ms") /\ ~Present(obj, "created_at"))]_vars

\* C12 (amended): parse_ts gives the instant of a valid timestamp_ms whatever
\* created_at holds, and the row appended carries it; when timestamp_ms is
\* there the result does not depend on created_at; "no timestamp" is the
\* result exactly when timestamp_ms is absent or null and created_at is
\* absent, null or empty.
C12_TimestampMsFirst ==
    [][\A p \in Procs :
         (AtRecord(p) /\ Stepped(p)) =>
            LET obj == Line(p).v
                ms == Get(obj, "timestamp_ms")
            IN  /\ (Present(obj, "timestamp_ms") /\ ValidMs(ms)) =>
                      /\ parse_ts(obj) = [r |-> "ts", ts |-> MsOf(ms)]
                      /\ Appended(p) => NewRow(p).ts = MsOf(ms)
                /\ Present(obj, "timestamp_ms") =>
                      parse_ts(obj) = parse_ts(Without(obj, "created_at"))
                /\ parse_ts(obj).r = "none" <=>
                      (~Present(obj, "timestamp_ms") /\ ~Truthy(Get(obj, "created_at")))
                /\ parse_ts(obj).r = "none" =>
                      (proc'[p].skipped = proc[p].skipped + 1
                          /\ proc'[p].batch = proc[p].batch)]_vars

\* C12 (witness): the row of a record whose timestamp_ms says 1000 and whose
\* created_at says 2000 is in the batch with the instant 1000
C12_Witness ==
    \E p \in Procs :
        /\ proc[p].pc = "lines"
        /\ proc[p].li = 2
        /\ Len(proc[p].batch) = 1
        /\ LET obj == Lines[disk[Path(p)].lines[1]].v
           IN  /\ Get(obj, "timestamp_ms") = JStr("1000")
               /\ Strptime(Get(obj, "created_at")) = [ok |-> TRUE, i |-> 2000]
        /\ proc[p].batch[1].ts = 1000

\* the columns that hold a nested object
NestedColumns == {"coordinates", "entities"}

\* C13 (as claimed): the row appended holds coordinates (and entities) as the
\* raw value when that is a mapping, and null for every other shape.
C13_MappingStored ==
    [][\A p \in Procs :
         Appended(p) =>
            \A col \in NestedColumns :
                LET raw == Get(Line(p).v, col)
                IN  NewRow(p)[col] = IF IsDict(raw) THEN raw ELSE Null]_vars

\* C13 (amended): the row appended holds coordinates (and entities) as the
\* raw value when that is a mapping with at least one key, and null for
\* every other shape: absent, null, list, scalar, and the empty mapping.
C13_NonEmptyMappingStored ==
    [][\A p \in Procs :
         Appended(p) =>
            \A col \in NestedColumns :
                LET raw == Get(Line(p).v, col)
                IN  NewRow(p)[col] = IF IsDict(raw) /\ DOMAIN raw.d # {} THEN raw
                                     ELSE Null]_vars

\* C13 (witness): the batch holds a row whose coordinates are the raw
\* mapping and whose entities, an empty mapping in the record, are null
C13_Witness ==
    \E p \in Procs :
        /\ proc[p].pc = "lines"
        /\ proc[p].li = 2
        /\ Len(proc[p].batch) = 1
        /\ LET obj == Lines[disk[Path(p)].lines[1]].v
           IN  /\ Get(obj, "coordinates") = JDict([type |-> JStr("Point")])
               /\ Get(obj, "entities") = JDict(<<>>)
        /\ proc[p].batch[1].coordinates = JDict([type |-> JStr("Point")])
        /\ proc[p].batch[1].entities = Null

\* the identifier of the record resolves: id_str, or str() of id, is not empty
ResolvedId(obj) ==
    Truthy(Or(Get(obj, "id_str"), JStr(StrOf(GetDefault(obj, "id", JStr(""))))))

\* C14 (as claimed): the iteration over a record whose timestamp and
\* identifier resolve appends its row, whatever shape the optional fields
\* have; no exception leaves the projection.
C14_ProjectionNeverRaises ==
    [][\A p \in Procs :
         (AtRecord(p) /\ parse_ts(Line(p).v).r = "ts" /\ ResolvedId(Line(p).v)
             /\ Stepped(p)) =>
                /\ Appended(p)
                /\ proc'[p].skipped = proc[p].skipped
                /\ failed' = failed]_vars

\* the rows of the lines that resolve to a row, in order
RECURSIVE AcceptedRows(_)
AcceptedRows(ls) ==
    IF ls = <<>> THEN <<>>
    ELSE LET h == HandleLine(Lines[Head(ls)])
         IN  (IF h.r = "row" THEN <<h.row>> ELSE <<>>) \o AcceptedRows(Tail(ls))

\* the lines that are no blank lines
NonBlank(ls) == SelectSeq(ls, LAMBDA i : Lines[i].kind # "blank")

\* the rows of the batches flushed, in order
FlushedRows(fl) == Flatten([i \in DOMAIN fl |-> fl[i].rows])

\* the lines process p has gone through in this call
Consumed(p) ==
    LET q == proc[p]
    IN  FileLines(SubSeq(q.file_paths, 1, Min(q.fi - 1, Len(q.file_paths))))
        \o (IF /\ q.fi <= Len(q.file_paths)
                /\ (q.pc = "lines" \/ (q.pc \in {"insert", "commit"} /\ q.back = "lines"))
             THEN SubSeq(disk[Path(p)].lines, 1, q.li - 1)
             ELSE <<>>)

RECURSIVE SumRowcount(_)
SumRowcount(fl) == IF fl = <<>> THEN 0 ELSE Head(fl).rowcount + SumRowcount(Tail(fl))

C17_FailureLosesOnlyOpenBatch ==
    [][/\ \A p \in Procs :
            (proc[p].pc = "commit" /\ Stepped(p) /\ failed' = failed) =>
                /\ Len(proc'[p].flushed) = Len(proc[p].flushed) + 1
                /\ store'.rows = store.rows (+) txn[p]
                /\ txn'[p] = EmptyBag
       /\ \A p \in Procs :
            (Active(p) /\ Stepped(p) /\ proc[p].pc # "commit") =>
                /\ store' = store
                /\ proc'[p].flushed = IF Active(p)' THEN proc[p].flushed ELSE <<>>
       /\ failed' # failed =>
            /\ store' = store
            /\ \A p \in Procs : Stepped(p) => txn'[p] = EmptyBag
            /\ \A q \in Procs : ~Stepped(q) => txn'[q] = txn[q]
       /\ mainpc = "wait" => store.rows \sqsubseteq store'.rows
       /\ \A f \in failed' :
            \A i \in DOMAIN f.flushed :
                \A j \in DOMAIN f.flushed[i].rows :
                    Conflicts(store'.rows, f.flushed[i].rows[j])]_vars

\* C17 (witness): a run of two workers has failed in the insert of a batch
\* whose rows are not in the table, after the failed worker had committed a
\* batch and the other worker had committed rows
C17_Witness ==
    /\ mainpc = "failed"
    /\ n = 2
    /\ \E f \in failed :
          /\ f.at = "insert"
          /\ f.flushed # <<>>
          /\ \E j \in DOMAIN f.batch : ~Conflicts(store.rows, f.batch[j])
          /\ \E c \in DOMAIN results :
                c # f.chunk /\ results[c] # <<>> /\ results[c].added > 0

\* C18: inside process_files inserted is the sum of the row counts of the
\* batches committed so far, and no more than the rows of those batches; at
\* the return no transaction is open and no row is buffered; a triple the
\* pool holds is that of a chunk that did not fail, and its inserted count
\* is no more than the rows that chunk added to the table.
C18_CountsFollowCommits ==
    /\ \A p \in Procs :
          Active(p) =>
              /\ proc[p].inserted = SumRowcount(proc[p].flushed)
              /\ proc[p].inserted <= Len(FlushedRows(proc[p].flushed))
              /\ \A i \in DOMAIN proc[p].flushed :
                    \A j \in DOMAIN proc[p].flushed[i].rows :
                        Conflicts(store.rows, proc[p].flushed[i].rows[j])
              /\ proc[p].pc = "return" =>
                    /\ txn[p] = EmptyBag
                    /\ proc[p].batch = <<>>
                    /\ proc[p].inserted <= proc[p].added
    /\ \A c \in DOMAIN results :
          results[c] # <<>> =>
              /\ results[c].inserted <= results[c].added
              /\ \A f \in failed : f.chunk # c

\* C18 (witness): a worker is about to return counts of two committed
\* batches
C18_Witness ==
    \E p \in Procs :
        /\ proc[p].pc = "return"
        /\ Len(proc[p].flushed) >= 2
        /\ proc[p].inserted >= 2
        /\ proc[p].inserted = proc[p].added

\* C19 (as claimed): the iteration over a line that is not blank adds one to
\* read_count and either adds one to skipped or appends one row to the
\* batch, never both and never neither; afterwards read_count is skipped
\* plus the rows flushed plus the rows buffered.
C19_EveryLineSkippedOrBuffered ==
    [][\A p \in Procs :
         (AtLine(p) /\ Line(p).kind # "blank" /\ Stepped(p)) =>
            /\ proc'[p].read_count = proc[p].read_count + 1
            /\ \/ /\ proc'[p].skipped = proc[p].skipped + 1
                  /\ proc'[p].batch = proc[p].batch
               \/ /\ proc'[p].skipped = proc[p].skipped
                  /\ Len(proc'[p].batch) = Len(proc[p].batch) + 1
            /\ proc'[p].read_count =
                  proc'[p].skipped + Len(FlushedRows(proc'[p].flushed))
                      + Len(proc'[p].batch)]_vars

\* C20: for BATCH_SIZE >= 1, between two iterations of the line loop, between
\* two files and at the return the buffer holds fewer than BATCH_SIZE rows;
\* a flush of the line loop submits BATCH_SIZE rows, the flush after the
\* last file is the last one and submits between one and BATCH_SIZE - 1
\* rows; the rows flushed and the rows buffered are, in order, the accepted
\* rows of all lines gone through, those of earlier files of the chunk
\* included.
C20_BufferBelowBatchSize ==
    \A p \in Procs :
        (Active(p) /\ BATCH_SIZE >= 1) =>
            LET q == proc[p]
            IN  /\ q.pc \in {"lines", "files", "return"} => Len(q.batch) < BATCH_SIZE
                /\ (q.pc \in {"insert", "commit"} /\ q.back = "lines") =>
                      Len(q.batch) = BATCH_SIZE
                /\ (q.pc \in {"insert", "commit"} /\ q.back = "return") =>
                      Len(q.batch) \in 1 .. BATCH_SIZE - 1
                /\ \A i \in DOMAIN q.flushed :
                      /\ q.flushed[i].at = "lines" => Len(q.flushed[i].rows) = BATCH_SIZE
                      /\ q.flushed[i].at = "return" =>
                            /\ i = Len(q.flushed)
                            /\ Len(q.flushed[i].rows) \in 1 .. BATCH_SIZE - 1
                /\ FlushedRows(q.flushed) \o q.batch = AcceptedRows(Consumed(p))

\* C20 (witness): a worker is about to return having flushed, in the line
\* loop of its second file, a batch that began in its first file, and a
\* shorter batch after the last file
C20_Witness ==
    \E p \in Procs :
        /\ proc[p].pc = "return"
        /\ BATCH_SIZE >= 2
        /\ Len(proc[p].file_paths) = 2
        /\ Len(proc[p].flushed) = 2
        /\ proc[p].flushed[1].at = "lines"
        /\ proc[p].flushed[2].at = "return"
        /\ Len(AcceptedRows(FileLines(<<proc[p].file_paths[1]>>))) \in 1 .. BATCH_SIZE - 1

=============================================================================
